---- MODULE Spec2Model ----
(***************************************************************************)
(* A model of src/typescript.ts (projen's TypeScriptProject):              *)
(*   - mergeTsconfigOptions, the reducer that combines tsconfig fragments; *)
(*   - resolveSnapshotPath / resolveTestPath, the two functions of the     *)
(*     generated jest snapshot resolver;                                   *)
(*   - the part of the TypeScriptProject constructor that orders the       *)
(*     `build` task and injects the cleanup step into the `test` task.     *)
(*                                                                         *)
(* Strings that the code inspects (directories, paths) are sequences over  *)
(* a small alphabet of symbols: "/" is the separator, and every other      *)
(* symbol ("lib", "test", ".js", ...) stands for a fixed run of characters *)
(* that contains no "/".  A JavaScript object with optional properties is  *)
(* a function whose domain holds exactly the properties that are present.  *)
(***************************************************************************)
EXTENDS Integers, Sequences, FiniteSets, TLC

\* ------------------------------------------------------------------ bounds

\* The longest list of fragments handed to mergeTsconfigOptions.
MaxFrags == 3

\* The most directories above a test file whose path is handed to the resolver.
MaxDepth == 4

\* ----------------------------------------------------------- JS primitives

\* The JavaScript value `undefined` where a fragment (an object) is expected.
Undefined == [undefined |-> TRUE]

\* An optional value: <<>> when it is not supplied, <<v>> when it is v.
Supplied(o) == o # <<>>

\* The object with no properties, {} (the function with the empty domain).
EmptyObject == <<>>

\* { ...a, ...b }: every property of a and of b, b's value where both have it.
Spread(a, b) ==
  [k \in (DOMAIN a) \cup (DOMAIN b) |-> IF k \in DOMAIN b THEN b[k] ELSE a[k]]

\* o[k] ?? d : the property k of o, or d when o has none.
OrElse(o, k, d) == IF k \in DOMAIN o THEN o[k] ELSE d

\* String.prototype.startsWith
startsWith(s, prefix) ==
  /\ Len(prefix) <= Len(s)
  /\ SubSeq(s, 1, Len(prefix)) = prefix

\* String.prototype.indexOf, 1-based; 0 when pat does not occur in s.
indexOf(s, pat) ==
  LET hits == {i \in 1..(Len(s) - Len(pat) + 1) :
                 SubSeq(s, i, i + Len(pat) - 1) = pat}
  IN  IF hits = {} THEN 0 ELSE CHOOSE i \in hits : \A j \in hits : i <= j

\* String.prototype.includes
includes(s, pat) == indexOf(s, pat) # 0

\* String.prototype.replace with a string pattern: the FIRST occurrence of pat
\* is replaced, and s is returned unchanged when pat does not occur.
replace(s, pat, rep) ==
  LET i == indexOf(s, pat)
  IN  IF i = 0 THEN s
      ELSE SubSeq(s, 1, i - 1) \o rep \o SubSeq(s, i + Len(pat), Len(s))

\* ------------------------------------------------------- path (node, posix)

\* The segments of a path: the maximal runs of symbols between separators.
RECURSIVE Segments(_)
Segments(p) ==
  IF p = <<>> THEN <<>>
  ELSE IF Head(p) = "/" THEN Segments(Tail(p))
  ELSE LET cut == indexOf(p, <<"/">>)
           n   == IF cut = 0 THEN Len(p) + 1 ELSE cut
       IN  <<SubSeq(p, 1, n - 1)>> \o Segments(SubSeq(p, n, Len(p)))

\* The segments written with one separator between neighbours.
RECURSIVE JoinSegments(_)
JoinSegments(segs) ==
  IF segs = <<>> THEN <<>>
  ELSE IF Len(segs) = 1 THEN segs[1]
  ELSE segs[1] \o <<"/">> \o JoinSegments(Tail(segs))

\* normalizeString: "." segments are dropped and ".." removes the segment
\* before it (or is kept, above the root of a relative path).
RECURSIVE normalizeString(_, _, _)
normalizeString(segs, allowAboveRoot, res) ==
  IF segs = <<>> THEN res
  ELSE LET seg == Head(segs)
           nxt == IF seg = <<".">> THEN res
                  ELSE IF seg = <<"..">>
                    THEN IF res # <<>> /\ res[Len(res)] # <<"..">>
                           THEN SubSeq(res, 1, Len(res) - 1)
                         ELSE IF allowAboveRoot THEN Append(res, seg)
                         ELSE res
                  ELSE Append(res, seg)
       IN  normalizeString(Tail(segs), allowAboveRoot, nxt)

\* path.normalize
normalize(p) ==
  IF p = <<>> THEN <<".">>
  ELSE LET isAbsolute        == p[1] = "/"
           trailingSeparator == p[Len(p)] = "/"
           body == JoinSegments(normalizeString(Segments(p), ~isAbsolute, <<>>))
       IN  IF body = <<>>
             THEN IF isAbsolute THEN <<"/">>
                  ELSE IF trailingSeparator THEN <<".", "/">> ELSE <<".">>
           ELSE (IF isAbsolute THEN <<"/">> ELSE <<>>) \o body
                \o (IF trailingSeparator THEN <<"/">> ELSE <<>>)

\* path.join: the non-empty arguments joined by "/", then normalized.
RECURSIVE joinArgs(_)
joinArgs(args) ==
  IF args = <<>> THEN <<>>
  ELSE LET rest == joinArgs(Tail(args))
       IN  IF Head(args) = <<>> THEN rest
           ELSE IF rest = <<>> THEN Head(args)
           ELSE Head(args) \o <<"/">> \o rest

join(args) == IF joinArgs(args) = <<>> THEN <<".">> ELSE normalize(joinArgs(args))

\* The index after the last symbol of p that is not a separator (0 if none).
lastNonSlash(p) ==
  LET ix == {i \in 1..Len(p) : p[i] # "/"}
  IN  IF ix = {} THEN 0 ELSE CHOOSE i \in ix : \A j \in ix : j <= i

\* path.dirname: p up to the separator before its last segment.
dirname(p) ==
  IF p = <<>> THEN <<".">>
  ELSE LET hasRoot == p[1] = "/"
           e       == lastNonSlash(p)
           cuts    == {i \in 2..e : p[i] = "/"}
           end     == IF cuts = {} THEN 0
                      ELSE CHOOSE i \in cuts : \A j \in cuts : j <= i
       IN  IF end = 0 THEN (IF hasRoot THEN <<"/">> ELSE <<".">>)
           ELSE IF hasRoot /\ end = 2 THEN <<"/", "/">>
           ELSE SubSeq(p, 1, end - 1)

\* path.basename(p): the last segment of p.
basename1(p) ==
  LET segs == Segments(p) IN IF segs = <<>> THEN <<>> ELSE segs[Len(segs)]

\* path.basename(p, ext): the last segment of p without the suffix ext; a
\* segment equal to ext is kept whole, and "" is returned when p is ext itself.
basename(p, ext) ==
  LET base == basename1(p)
  IN  IF ext = <<>> \/ Len(ext) > Len(p) THEN base
      ELSE IF ext = p THEN <<>>
      ELSE IF Len(base) > Len(ext)
              /\ SubSeq(base, Len(base) - Len(ext) + 1, Len(base)) = ext
        THEN SubSeq(base, 1, Len(base) - Len(ext))
      ELSE base

\* path.posix.relative(from, to) for a directory `to` below `from`: what
\* follows "from/" in `to`.
relative(from, to) == SubSeq(to, Len(from) + 2, Len(to))

\* ----------------------------------------------------- mergeTsconfigOptions

\* A filter that stops at the first undefined entry instead of skipping it.
filterBooleanTruncating(opts) ==
  LET gaps == {i \in 1..Len(opts) : opts[i] = Undefined}
  IN  IF gaps = {} THEN opts
      ELSE SubSeq(opts, 1, (CHOOSE i \in gaps : \A j \in gaps : i <= j) - 1)

\* options.filter(Boolean): the entries that are not undefined, in order.
filterBoolean(opts) == SelectSeq(opts, LAMBDA o : o # Undefined)

\* A reducer that puts the current fragment's globs in front.
mergeStepPrepending(previous, current) ==
  Spread(Spread(previous, current),
         [include |-> OrElse(current, "include", <<>>)
                      \o OrElse(previous, "include", <<>>),
          exclude |-> OrElse(current, "exclude", <<>>)
                      \o OrElse(previous, "exclude", <<>>),
          compilerOptions |->
            Spread(OrElse(previous, "compilerOptions", EmptyObject),
                   OrElse(current, "compilerOptions", EmptyObject))])

\* A reducer that merges compilerOptions two levels deep: when both sides
\* define an option, the inner keys of both values are kept.
mergeStepDeep(previous, current) ==
  LET po == OrElse(previous, "compilerOptions", EmptyObject)
      co == OrElse(current, "compilerOptions", EmptyObject)
  IN  Spread(Spread(previous, current),
         [include |-> OrElse(previous, "include", <<>>)
                      \o OrElse(current, "include", <<>>),
          exclude |-> OrElse(previous, "exclude", <<>>)
                      \o OrElse(current, "exclude", <<>>),
          compilerOptions |->
            [k \in (DOMAIN po) \cup (DOMAIN co) |->
               IF k \in DOMAIN po /\ k \in DOMAIN co
                 THEN Spread(po[k], co[k])
               ELSE IF k \in DOMAIN co THEN co[k] ELSE po[k]]])

\* The reducer: every property of previous and current (current wins), with
\* include and exclude concatenated and compilerOptions spread one level deep.
mergeStep(previous, current) ==
  Spread(Spread(previous, current),
         [include |-> OrElse(previous, "include", <<>>)
                      \o OrElse(current, "include", <<>>),
          exclude |-> OrElse(previous, "exclude", <<>>)
                      \o OrElse(current, "exclude", <<>>),
          compilerOptions |->
            Spread(OrElse(previous, "compilerOptions", EmptyObject),
                   OrElse(current, "compilerOptions", EmptyObject))])

\* definedOptions.reduce(reducer, acc): the reducer applied left to right.
RECURSIVE reduce(_, _)
reduce(seq, acc) ==
  IF seq = <<>> THEN acc ELSE reduce(Tail(seq), mergeStep(acc, Head(seq)))

\* An initial value that already holds empty globs.
mergeInitialWithGlobs ==
  [include |-> <<>>, exclude |-> <<>>, compilerOptions |-> EmptyObject]

\* The initial value of the reduction.
mergeInitial == [compilerOptions |-> EmptyObject]

mergeTsconfigOptions(opts) == reduce(filterBoolean(opts), mergeInitial)

\* ------------------------------------------------------------------- state

VARIABLES
  mergeArgs,   \* the list handed to mergeTsconfigOptions
  merged,      \* what the call returned (Undefined before it returns)
  mpc          \* "idle", "call" or "done"

VARIABLES
  libtest,      \* the compiled-test root the resolver closes over
  srctest,      \* the source-test root the resolver closes over
  testPath,     \* the test file path jest hands to resolveSnapshotPath
  snapExt,      \* the snapshot extension jest hands to both functions
  snapshot,     \* the outcome of resolveSnapshotPath (Undefined before)
  resolvedTest, \* the outcome of resolveTestPath (Undefined before)
  rpc           \* "idle", "start", "snapshot" or "done"

VARIABLES
  options,           \* the options handed to the TypeScriptProject constructor
  jest,              \* whether this.jest is defined when super() has returned
  inherited,         \* the steps of the build and test tasks when super() has returned
  pc,                \* the constructor's position ("idle" when none runs)
  srcdir,            \* this.srcdir
  libdir,            \* this.libdir
  testdir,           \* this.testdir
  compiledTests,     \* the constructor's local of that name
  compileBeforeTest, \* the constructor's local of that name
  buildTask,         \* this.buildTask
  testTask,          \* this.testTask
  compileTask,       \* this.compileTask
  packageTask        \* this.packageTask (Undefined until it is added)

mergeVars == <<mergeArgs, merged, mpc>>

projectVars ==
  <<options, jest, inherited, pc, srcdir, libdir, testdir, compiledTests,
    compileBeforeTest, buildTask, testTask, compileTask, packageTask>>

resolverVars ==
  <<libtest, srctest, testPath, snapExt, snapshot, resolvedTest, rpc>>

vars == <<mergeVars, resolverVars, projectVars>>

\* mergeTsconfigOptions is not being called.
IdleMerge == mergeArgs = <<>> /\ merged = Undefined /\ mpc = "idle"

\* No project is under construction.
IdleProject ==
  /\ options = EmptyObject /\ jest = FALSE /\ inherited = EmptyObject
  /\ pc = "idle"
  /\ srcdir = <<>> /\ libdir = <<>> /\ testdir = <<>>
  /\ compiledTests = FALSE /\ compileBeforeTest = FALSE
  /\ buildTask = Undefined /\ testTask = Undefined
  /\ compileTask = Undefined /\ packageTask = Undefined

\* The snapshot resolver is not being called.
IdleResolver ==
  /\ testPath = <<>> /\ snapExt = <<>>
  /\ snapshot = Undefined /\ resolvedTest = Undefined
  /\ rpc = "idle"

\* --------------------------------------------- inputs of mergeTsconfigOptions

\* Option values: scalars and structured values (objects with inner keys).
Scalar1 == [scalar |-> 1]
Scalar2 == [scalar |-> 2]
StructP == [p |-> 1]
StructQ == [q |-> 2]

\* The optional `include`, `exclude` and `compilerOptions` of a fragment.
IncludeChoices == {<<>>, << <<"a">> >>, << <<"b", "a">> >>}
ExcludeChoices == {<<>>, << <<"n">> >>}
CompilerOptionsChoices ==
  {<<>>, << [x |-> StructP, y |-> Scalar1] >>, << [x |-> StructQ] >>}

\* The fragment with the supplied properties among include, exclude and
\* compilerOptions.
Fragment(i, e, c) ==
  [k \in {f \in {"include", "exclude", "compilerOptions"} :
            \/ f = "include" /\ Supplied(i)
            \/ f = "exclude" /\ Supplied(e)
            \/ f = "compilerOptions" /\ Supplied(c)} |->
     CASE k = "include" -> i[1]
       [] k = "exclude" -> e[1]
       [] k = "compilerOptions" -> c[1]]

Fragments ==
  {Fragment(i, e, c) : i \in IncludeChoices, e \in ExcludeChoices,
                       c \in CompilerOptionsChoices}
  \cup {[fileName |-> "tsconfig.jest.json", include |-> <<"a">>],
        [fileName |-> "tsconfig.eslint.json",
         compilerOptions |-> [y |-> Scalar2]]}

\* The lists of at most MaxFrags entries, each a fragment or undefined.
ArgLists ==
  UNION {[1..n -> Fragments \cup {Undefined}] : n \in 0..MaxFrags}

\* ------------------------------------------- specification: merge as called

InitMerge ==
  /\ libtest = <<>> /\ srctest = <<>>
  /\ IdleResolver
  /\ IdleProject
  /\ mergeArgs \in ArgLists
  /\ merged = Undefined
  /\ mpc = "call"

\* One call of mergeTsconfigOptions(mergeArgs).
Merge ==
  /\ mpc = "call"
  /\ merged' = mergeTsconfigOptions(mergeArgs)
  /\ mpc' = "done"
  /\ UNCHANGED <<mergeArgs, resolverVars, projectVars>>

NextMerge == Merge

SpecMerge == InitMerge /\ [][NextMerge]_vars

\* ------------------------------------------------------ the snapshot resolver

\* A resolveSnapshotPath that takes the compiled-test root to be the start
\* of the path and swaps it by its length.
resolveSnapshotPathBySlicing(test, ext) ==
  LET fullpath == srctest \o SubSeq(test, Len(libtest) + 1, Len(test))
  IN  join(<<dirname(fullpath),
             <<"__snapshots__">>,
             basename(fullpath, <<".js">>) \o <<".ts">> \o ext>>)

\* resolveSnapshotPath, as written into jest-snapshot-resolver.js.
resolveSnapshotPath(test, ext) ==
  LET fullpath == replace(test, libtest, srctest)
  IN  join(<<dirname(fullpath),
             <<"__snapshots__">>,
             basename(fullpath, <<".js">>) \o <<".ts">> \o ext>>)

\* resolveTestPath, as written into jest-snapshot-resolver.js.
resolveTestPath(snap, ext) ==
  LET filename == basename(snap, <<".ts">> \o ext) \o <<".js">>
      dir      == replace(dirname(dirname(snap)), srctest, libtest)
  IN  join(<<dir, filename>>)

\* The roots of the resolver, from the project's directories.
resolverLibtest(lib, src, tst) == join(<<lib, relative(src, tst)>>)
resolverSrctest(lib, src, tst) == tst

\* Project layouts whose tests are compiled: testdir is below srcdir.
Layouts ==
  {[libdir |-> <<"lib">>, srcdir |-> <<"src">>,
    testdir |-> <<"src", "/", "test">>],
   [libdir |-> <<"lib">>, srcdir |-> <<"test">>,
    testdir |-> <<"test", "/", "src">>]}

\* Names of the directories on the way to a test file.
DirNames == {<<"lib">>, <<"src">>, <<"test">>, <<"pkg">>}

\* Names of compiled test files: jest's testMatch takes .js and .jsx files.
FileNames == {<<"a", ".js">>, <<"a", ".jsx">>}

\* The test file paths below at most MaxDepth directories, absolute or
\* relative.
TestPaths ==
  {root \o JoinSegments(dirs \o <<file>>) :
     root \in {<<>>, <<"/">>},
     dirs \in UNION {[1..n -> DirNames] : n \in 0..MaxDepth},
     file \in FileNames}

\* The snapshot extension jest uses.
Extensions == {<<".snap">>}

InitResolver ==
  /\ IdleMerge
  /\ IdleProject
  /\ \E l \in Layouts :
       /\ libtest = resolverLibtest(l.libdir, l.srcdir, l.testdir)
       /\ srctest = resolverSrctest(l.libdir, l.srcdir, l.testdir)
  /\ testPath \in TestPaths
  /\ snapExt \in Extensions
  /\ snapshot = Undefined
  /\ resolvedTest = Undefined
  /\ rpc = "start"

\* jest calls resolveSnapshotPath(testPath, snapExt); the function has no
\* throw statement and its callees accept every string, so it returns.
ResolveSnapshotPath ==
  /\ rpc = "start"
  /\ snapshot' = [returned |-> resolveSnapshotPath(testPath, snapExt)]
  /\ rpc' = "snapshot"
  /\ UNCHANGED <<libtest, srctest, testPath, snapExt, resolvedTest, mergeVars,
               projectVars>>

\* jest calls resolveTestPath on the snapshot path it was given.
ResolveTestPath ==
  /\ rpc = "snapshot"
  /\ resolvedTest' = [returned |-> resolveTestPath(snapshot.returned, snapExt)]
  /\ rpc' = "done"
  /\ UNCHANGED <<libtest, srctest, testPath, snapExt, snapshot, mergeVars,
               projectVars>>

NextResolver == ResolveSnapshotPath \/ ResolveTestPath

SpecResolver == InitResolver /\ [][NextResolver]_vars

\* ------------------------------------------------------------------- tasks

\* A task with its name and its steps; a step is a command to execute,
\* [exec |-> command], or another task to run, [spawn |-> name].
Task(name, steps) == [name |-> name, steps |-> steps]

\* Task.spawn: a step that runs the other task is added at the end.
spawn(task, subtask) ==
  [task EXCEPT !.steps = Append(@, [spawn |-> subtask.name])]

\* Task.exec: a step that executes the command is added at the end.
exec(task, command) == [task EXCEPT !.steps = Append(@, [exec |-> command])]

\* Task.prependExec: a step that executes the command is added in front.
prependExec(task, command) ==
  [task EXCEPT !.steps = <<[exec |-> command]>> \o @]

\* ------------------------------------------- the TypeScriptProject constructor

\* The options object with the supplied properties among srcdir, libdir,
\* testdir, compileBeforeTest and package (each <<>> or <<value>>).
Options(s, l, t, c, p) ==
  [k \in {f \in {"srcdir", "libdir", "testdir", "compileBeforeTest", "package"} :
            \/ f = "srcdir" /\ Supplied(s)
            \/ f = "libdir" /\ Supplied(l)
            \/ f = "testdir" /\ Supplied(t)
            \/ f = "compileBeforeTest" /\ Supplied(c)
            \/ f = "package" /\ Supplied(p)} |->
     CASE k = "srcdir" -> s[1]
       [] k = "libdir" -> l[1]
       [] k = "testdir" -> t[1]
       [] k = "compileBeforeTest" -> c[1]
       [] k = "package" -> p[1]]

\* The values the options are drawn from.  <<"src", "test">> is the one
\* name "srctest": it begins like "src" and is not below it.
SrcdirChoices  == {<<>>, << <<"sources">> >>, << <<"test">> >>}
LibdirChoices  == {<<>>, << <<"dist">> >>}
TestdirChoices ==
  {<<>>, << <<"src", "/", "test">> >>, << <<"src", "test">> >>,
   << <<"test", "/", "src">> >>, << <<"sources", "/", "__tests__">> >>}
FlagChoices    == {<<>>, <<TRUE>>, <<FALSE>>}

\* The steps the build and the test task may hold when super() has returned.
InheritedBuildSteps == {<<>>, <<[exec |-> <<"projen">>]>>}
InheritedTestSteps ==
  {<<>>, <<[exec |-> <<"jest">>]>>,
   <<[exec |-> <<"jest">>], [spawn |-> "eslint"]>>}

\* The state when super(...) has returned to the constructor.
InitProject ==
  /\ IdleMerge
  /\ IdleResolver
  /\ libtest = <<>> /\ srctest = <<>>
  /\ options \in {Options(s, l, t, c, p) :
                    s \in SrcdirChoices, l \in LibdirChoices,
                    t \in TestdirChoices, c \in FlagChoices, p \in FlagChoices}
  /\ jest \in BOOLEAN
  /\ inherited \in [build : InheritedBuildSteps, test : InheritedTestSteps]
  /\ pc = "dirs"
  /\ srcdir = <<>> /\ libdir = <<>> /\ testdir = <<>>
  /\ compiledTests = FALSE /\ compileBeforeTest = FALSE
  /\ buildTask = Task("build", inherited.build)
  /\ testTask = Task("test", inherited.test)
  /\ compileTask = Task("compile", <<>>)
  /\ packageTask = Undefined

\* srcdir, libdir and testdir take the options' values or their defaults,
\* and the compile task runs tsc.
SetDirectories ==
  /\ pc = "dirs"
  /\ srcdir' = OrElse(options, "srcdir", <<"src">>)
  /\ libdir' = OrElse(options, "libdir", <<"lib">>)
  /\ compileTask' = exec(compileTask, <<"tsc">>)
  /\ testdir' = OrElse(options, "testdir", <<"test">>)
  /\ pc' = "order"
  /\ UNCHANGED <<options, jest, inherited, compiledTests, compileBeforeTest,
                 buildTask, testTask, packageTask, libtest, srctest>>
  /\ UNCHANGED <<mergeVars, testPath, snapExt, snapshot, resolvedTest, rpc>>

\* A test for compiled tests that forgets the separator after srcdir.
testsAreCompiledByPrefix(tst, src) == startsWith(tst, src)

\* Whether the tests are compiled with the sources: testdir is below srcdir.
testsAreCompiled(tst, src) == startsWith(tst, src \o <<"/">>)

\* An ordering step that always spawns test before compile.
OrderBuildTestFirst ==
  /\ pc = "order"
  /\ compiledTests' = testsAreCompiled(testdir, srcdir)
  /\ compileBeforeTest' = OrElse(options, "compileBeforeTest", compiledTests')
  /\ buildTask' = spawn(spawn(buildTask, testTask), compileTask)
  /\ pc' = "package"
  /\ UNCHANGED <<options, jest, inherited, srcdir, libdir, testdir, testTask,
                 compileTask, packageTask, libtest, srctest>>
  /\ UNCHANGED <<mergeVars, testPath, snapExt, snapshot, resolvedTest, rpc>>

\* The build task spawns compile and test, in the order compileBeforeTest
\* (or, when it is not supplied, the layout of the tests) decides.
OrderBuild ==
  /\ pc = "order"
  /\ compiledTests' = testsAreCompiled(testdir, srcdir)
  /\ compileBeforeTest' = OrElse(options, "compileBeforeTest", compiledTests')
  /\ buildTask' = IF compileBeforeTest'
                    THEN spawn(spawn(buildTask, compileTask), testTask)
                    ELSE spawn(spawn(buildTask, testTask), compileTask)
  /\ pc' = "package"
  /\ UNCHANGED <<options, jest, inherited, srcdir, libdir, testdir, testTask,
                 compileTask, packageTask, libtest, srctest>>
  /\ UNCHANGED <<mergeVars, testPath, snapExt, snapshot, resolvedTest, rpc>>

\* The package task as the constructor fills it.
newPackageTask ==
  exec(exec(exec(exec(Task("package", <<>>),
                      <<"rm -fr dist">>),
                 <<"mkdir -p dist/js">>),
            <<"<packageManager> pack">>),
       <<"mv *.tgz dist/js/">>)

\* Unless options.package is false, the package task is added and the
\* build task spawns it.
AddPackage ==
  /\ pc = "package"
  /\ IF OrElse(options, "package", TRUE)
       THEN /\ packageTask' = newPackageTask
            /\ buildTask' = spawn(buildTask, packageTask')
       ELSE UNCHANGED <<packageTask, buildTask>>
  /\ pc' = "resolver"
  /\ UNCHANGED <<options, jest, inherited, srcdir, libdir, testdir,
                 compiledTests, compileBeforeTest, testTask, compileTask,
                 libtest, srctest>>
  /\ UNCHANGED <<mergeVars, testPath, snapExt, snapshot, resolvedTest, rpc>>

\* With jest and compiled tests, the snapshot resolver is generated with
\* its two roots.
AddSnapshotResolver ==
  /\ pc = "resolver"
  /\ IF jest /\ compiledTests
       THEN /\ libtest' = resolverLibtest(libdir, srcdir, testdir)
            /\ srctest' = resolverSrctest(libdir, srcdir, testdir)
       ELSE UNCHANGED <<libtest, srctest>>
  /\ pc' = "jest"
  /\ UNCHANGED <<options, jest, inherited, srcdir, libdir, testdir,
                 compiledTests, compileBeforeTest, buildTask, testTask,
                 compileTask, packageTask>>
  /\ UNCHANGED <<mergeVars, testPath, snapExt, snapshot, resolvedTest, rpc>>

\* The step that removes the compiled output.
cleanupCommand == <<"rm -fr ">> \o libdir \o <<"/">>

\* A jest step that injects the cleanup for compiled tests instead.
ConfigureJestForCompiledTests ==
  /\ pc = "jest"
  /\ IF jest /\ compiledTests /\ ~compileBeforeTest
       THEN testTask' = prependExec(testTask, cleanupCommand)
       ELSE UNCHANGED testTask
  /\ pc' = "done"
  /\ UNCHANGED <<options, jest, inherited, srcdir, libdir, testdir,
                 compiledTests, compileBeforeTest, buildTask, compileTask,
                 packageTask, libtest, srctest>>
  /\ UNCHANGED <<mergeVars, testPath, snapExt, snapshot, resolvedTest, rpc>>

\* A jest step that adds the cleanup with exec, at the end of the task.
ConfigureJestAppending ==
  /\ pc = "jest"
  /\ IF jest /\ ~compiledTests /\ ~compileBeforeTest
       THEN testTask' = exec(testTask, cleanupCommand)
       ELSE UNCHANGED testTask
  /\ pc' = "done"
  /\ UNCHANGED <<options, jest, inherited, srcdir, libdir, testdir,
                 compiledTests, compileBeforeTest, buildTask, compileTask,
                 packageTask, libtest, srctest>>
  /\ UNCHANGED <<mergeVars, testPath, snapExt, snapshot, resolvedTest, rpc>>

\* With jest and tests that are not compiled, and the tests run before the
\* compilation, the test task first removes the compiled output.
ConfigureJest ==
  /\ pc = "jest"
  /\ IF jest /\ ~compiledTests /\ ~compileBeforeTest
       THEN testTask' = prependExec(testTask, cleanupCommand)
       ELSE UNCHANGED testTask
  /\ pc' = "done"
  /\ UNCHANGED <<options, jest, inherited, srcdir, libdir, testdir,
                 compiledTests, compileBeforeTest, buildTask, compileTask,
                 packageTask, libtest, srctest>>
  /\ UNCHANGED <<mergeVars, testPath, snapExt, snapshot, resolvedTest, rpc>>

Next ==
  \/ SetDirectories
  \/ OrderBuild
  \/ AddPackage
  \/ AddSnapshotResolver
  \/ ConfigureJest

Spec == InitProject /\ [][Next]_vars

\* ============================================================== properties

\* ---- mergeTsconfigOptions

\* The entries of mergeArgs that are supplied (not undefined).
SuppliedAt == {i \in 1..Len(mergeArgs) : mergeArgs[i] # Undefined}

\* The property f of every supplied entry of args that has one, concatenated
\* in list order.
RECURSIVE ConcatOf(_, _)
ConcatOf(args, f) ==
  IF args = <<>> THEN <<>>
  ELSE (IF Head(args) # Undefined /\ f \in DOMAIN Head(args)
          THEN Head(args)[f] ELSE <<>>) \o ConcatOf(Tail(args), f)

\* The entries of args that are not undefined, in order.
RECURSIVE SuppliedOnly(_)
SuppliedOnly(args) ==
  IF args = <<>> THEN <<>>
  ELSE IF Head(args) = Undefined THEN SuppliedOnly(Tail(args))
  ELSE <<Head(args)>> \o SuppliedOnly(Tail(args))

\* args with one more undefined entry after position i (0: in front).
InsertAbsent(args, i) ==
  SubSeq(args, 1, i) \o <<Undefined>> \o SubSeq(args, i + 1, Len(args))

\* Entry i of mergeArgs defines the compiler option k.
Defines(i, k) ==
  /\ mergeArgs[i] # Undefined
  /\ "compilerOptions" \in DOMAIN mergeArgs[i]
  /\ k \in DOMAIN mergeArgs[i].compilerOptions

\* The result has include and exclude, the concatenations of the inputs'.
GlobsAreConcatenated ==
  /\ "include" \in DOMAIN merged
  /\ merged.include = ConcatOf(mergeArgs, "include")
  /\ "exclude" \in DOMAIN merged
  /\ merged.exclude = ConcatOf(mergeArgs, "exclude")

\* C1 as stated: for EVERY list of fragments the result's include (exclude)
\* is the concatenation, in list order, of the fragments' include (exclude)
\* sequences.  Refuted by a list with no supplied fragment, whose result has
\* no include at all.
C1_Original == mpc = "done" => GlobsAreConcatenated

\* C1 (amended): for every list with at least one supplied fragment, the
\* result's include is the concatenation, in list order, of the include
\* sequences of the supplied fragments (a fragment without include adds
\* nothing), duplicates kept and nothing reordered; the same for exclude.
C1_MergeUnion ==
  (mpc = "done" /\ SuppliedAt # {}) => GlobsAreConcatenated

\* Three entries, one of them without include, the other two sharing the
\* glob "a": the duplicate is kept and the list order decides.
C1_Witness ==
  /\ mpc = "done"
  /\ Len(mergeArgs) = 3
  /\ SuppliedAt = {1, 2, 3}
  /\ "include" \notin DOMAIN mergeArgs[2]
  /\ merged.include = <<"b", "a", "a">>
  /\ merged.exclude = <<"n", "n">>

\* C2: the merged compiler options hold exactly the names some fragment
\* defines, each with the value of the LAST fragment in list order that
\* defines it; a structured value is replaced wholesale, never merged.
C2_MergeOverride ==
  mpc = "done" =>
    /\ "compilerOptions" \in DOMAIN merged
    /\ DOMAIN merged.compilerOptions =
         UNION {DOMAIN mergeArgs[i].compilerOptions :
                  i \in {j \in SuppliedAt :
                           "compilerOptions" \in DOMAIN mergeArgs[j]}}
    /\ \A k \in DOMAIN merged.compilerOptions :
         LET defs == {i \in 1..Len(mergeArgs) : Defines(i, k)}
             last == CHOOSE i \in defs : \A j \in defs : j <= i
         IN  merged.compilerOptions[k] = mergeArgs[last].compilerOptions[k]

\* Two fragments define x with structured values of different inner keys:
\* the later one stands alone in the result, and y of the earlier is kept.
C2_Witness ==
  /\ mpc = "done"
  /\ \E i, j \in 1..Len(mergeArgs) :
       /\ i < j
       /\ Defines(i, "x") /\ mergeArgs[i].compilerOptions.x = StructP
       /\ Defines(i, "y")
       /\ Defines(j, "x") /\ mergeArgs[j].compilerOptions.x = StructQ
       /\ ~ \E l \in (j + 1)..Len(mergeArgs) : Defines(l, "x") \/ Defines(l, "y")
  /\ merged.compilerOptions.x = StructQ
  /\ "p" \notin DOMAIN merged.compilerOptions.x
  /\ merged.compilerOptions.y = Scalar1

\* C3 as stated: with every entry absent the result has include = [],
\* exclude = [] and options = {}.
C3_Original ==
  (mpc = "done" /\ SuppliedAt = {}) =>
    merged = [include |-> <<>>, exclude |-> <<>>,
              compilerOptions |-> EmptyObject]

\* C3 (amended): with every entry absent (the empty list included) the
\* result is { compilerOptions: {} }: the options are the empty mapping and
\* there is no include and no exclude property.
C3_MergeNothing ==
  (mpc = "done" /\ SuppliedAt = {}) =>
    /\ DOMAIN merged = {"compilerOptions"}
    /\ merged.compilerOptions = EmptyObject

\* A list of two undefined entries has been merged.
C3_Witness ==
  /\ mpc = "done"
  /\ Len(mergeArgs) = 2
  /\ SuppliedAt = {}
  /\ merged # Undefined

\* C4: absent entries never influence the merge: the result is the
\* reduction of the supplied entries alone, and one more undefined entry at
\* any position of the list gives the same result.
C4_MergeAbsence ==
  mpc = "done" =>
    /\ merged = reduce(SuppliedOnly(mergeArgs), mergeInitial)
    /\ \A i \in 0..Len(mergeArgs) :
         mergeTsconfigOptions(InsertAbsent(mergeArgs, i)) = merged

\* merge([undefined, A, undefined]) has returned, A with globs and options.
C4_Witness ==
  /\ mpc = "done"
  /\ Len(mergeArgs) = 3
  /\ SuppliedAt = {2}
  /\ DOMAIN mergeArgs[2] = {"include", "exclude", "compilerOptions"}
  /\ merged = mergeArgs[2]

\* ---- the snapshot resolver

\* C5: for every test path that contains the compiled-test root,
\* resolveTestPath(resolveSnapshotPath(p, ext), ext) = p.
C5_RoundTrip ==
  (rpc = "done" /\ includes(testPath, libtest)) =>
    resolvedTest = [returned |-> testPath]

\* C6 as stated: on a path that does not contain the compiled-test root,
\* resolveSnapshotPath fails with a MalformedPathError and returns no path.
C6_Original ==
  (rpc \in {"snapshot", "done"} /\ ~includes(testPath, libtest)) =>
    snapshot = [thrown |-> "MalformedPathError"]

\* C6 (amended): on a path that does not contain the compiled-test root,
\* resolveSnapshotPath does not fail: it returns the snapshot path beside
\* the unchanged input, dirname(p)/__snapshots__/basename(p, ".js").ts<ext>.
C6_NoPrefixNoFailure ==
  (rpc \in {"snapshot", "done"} /\ ~includes(testPath, libtest)) =>
    /\ DOMAIN snapshot = {"returned"}
    /\ snapshot.returned =
         join(<<dirname(testPath), <<"__snapshots__">>,
                basename(testPath, <<".js">>) \o <<".ts">> \o snapExt>>)

\* resolveSnapshotPath has returned for pkg/test/a.js, with root lib/test.
C6_Witness ==
  /\ rpc = "snapshot"
  /\ libtest = <<"lib", "/", "test">>
  /\ testPath = <<"pkg", "/", "test", "/", "a", ".js">>
  /\ snapshot.returned =
       <<"pkg", "/", "test", "/", "__snapshots__", "/", "a", ".ts", ".snap">>

\* ---- the constructor

\* The steps the constructor has added to the build task.
AddedToBuild ==
  SubSeq(buildTask.steps, Len(inherited.build) + 1, Len(buildTask.steps))

\* Packaging is enabled: options.package is true or not supplied.
PackagingEnabled == OrElse(options, "package", TRUE)

\* The test directory is below the source directory.
TestsUnderSources ==
  startsWith(OrElse(options, "testdir", <<"test">>),
             OrElse(options, "srcdir", <<"src">>) \o <<"/">>)

\* The cleanup step, rm -fr <libdir>/.
CleanupStep ==
  [exec |-> <<"rm -fr ">> \o OrElse(options, "libdir", <<"lib">>) \o <<"/">>]

\* The cleanup step has been injected, in front of the test task's steps.
CleanupInjected == testTask.steps = <<CleanupStep>> \o inherited.test

\* C7: the constructor adds to the build task exactly spawn(compile) then
\* spawn(test) under the compile-first policy, spawn(test) then
\* spawn(compile) otherwise, each once, and then spawn(package) as the last
\* step exactly when packaging is enabled.
C7_BuildSteps ==
  pc = "done" =>
    /\ SubSeq(buildTask.steps, 1, Len(inherited.build)) = inherited.build
    /\ AddedToBuild =
         (IF compileBeforeTest
            THEN <<[spawn |-> "compile"], [spawn |-> "test"]>>
            ELSE <<[spawn |-> "test"], [spawn |-> "compile"]>>)
         \o (IF PackagingEnabled THEN <<[spawn |-> "package"]>> ELSE <<>>)

\* A project with the compile-first policy and packaging, and a build task
\* that held a step before: compile, test and package follow it.
C7_Witness ==
  /\ pc = "done"
  /\ compileBeforeTest
  /\ PackagingEnabled
  /\ buildTask.steps =
       <<[exec |-> <<"projen">>], [spawn |-> "compile"], [spawn |-> "test"],
         [spawn |-> "package"]>>

\* C8 as stated: with compileBeforeTest false and the test directory below
\* the source directory, the cleanup step is injected into the test task.
C8_Original ==
  (pc = "done" /\ ~compileBeforeTest /\ TestsUnderSources) => CleanupInjected

\* C8 (amended): the cleanup step is injected into the test task when
\* compileBeforeTest is false, jest is enabled and the test directory is NOT
\* below the source directory (jest compiles the tests in memory); with the
\* test directory below the source directory it is never injected.
C8_CleanupInjection ==
  pc = "done" =>
    /\ (~compileBeforeTest /\ jest /\ ~TestsUnderSources) => CleanupInjected
    /\ TestsUnderSources => testTask.steps = inherited.test

\* Tests beside the sources, run before the compilation, with jest: the
\* test task begins with the cleanup.
C8_Witness ==
  /\ pc = "done"
  /\ ~compileBeforeTest /\ jest /\ ~TestsUnderSources
  /\ testTask.steps[1] = CleanupStep
  /\ Len(testTask.steps) = Len(inherited.test) + 1

\* C9: the test task holds the steps it had, in their order, with the
\* cleanup step in front of them or not at all: never behind them, never
\* twice.
C9_Prepend ==
  pc # "idle" =>
    \/ testTask.steps = inherited.test
    \/ testTask.steps = <<CleanupStep>> \o inherited.test

\* The cleanup has been put in front of a test task that held two steps.
C9_Witness ==
  /\ pc = "done"
  /\ Len(inherited.test) = 2
  /\ testTask.steps = <<CleanupStep>> \o inherited.test
  /\ testTask.steps[2] = [exec |-> <<"jest">>]

\* C10: the build task spawns compile before test iff compileBeforeTest is
\* supplied as true or, when it is not supplied, the test directory is
\* below the source directory.
C10_DefaultOrder ==
  pc = "done" =>
    LET c == indexOf(AddedToBuild, <<[spawn |-> "compile"]>>)
        t == indexOf(AddedToBuild, <<[spawn |-> "test"]>>)
    IN  /\ c # 0 /\ t # 0
        /\ (c < t) <=> (IF "compileBeforeTest" \in DOMAIN options
                          THEN options.compileBeforeTest
                          ELSE TestsUnderSources)

\* No compileBeforeTest is supplied and the tests are below the sources:
\* the build task compiles first.
C10_Witness ==
  /\ pc = "done"
  /\ "compileBeforeTest" \notin DOMAIN options
  /\ TestsUnderSources
  /\ AddedToBuild[1] = [spawn |-> "compile"]
  /\ AddedToBuild[2] = [spawn |-> "test"]

====
